---- MODULE Spec2Model ----
(***************************************************************************)
(* The telemetry wrapper of skew_openai: langmeshWrapper (wrapper.py)      *)
(* around an opaque client, and the TelemetryClient (telemetry.py) it      *)
(* hands its events to.  One caller thread makes instrumented calls and    *)
(* administrative calls; every instrumented call hands its telemetry to a  *)
(* background thread, which runs submit(); submit() starts a background    *)
(* flush when the buffer reaches batch_size; a threading.Timer chain runs  *)
(* the periodic flush.                                                     *)
(***************************************************************************)
EXTENDS Integers, Sequences, FiniteSets

\* ------------------------------------------------------------- bounds
MaxCalls == 3          \* instrumented calls the caller makes
MaxSubmits == 2        \* direct submit() calls on the TelemetryClient
MaxFlushes == 2        \* flushes other than threshold flushes (timer, explicit, destroy)
MaxDepth == 3          \* names in an attribute chain (chat.completions.create)
MaxCreates == 10       \* chat.completions.create calls on the drop-in client
MaxTicks == 2          \* firings of the drop-in client's flush timer
BatchSize == 2         \* TelemetryConfig.batch_size of the modelled client

\* ------------------------------------------------------------- values
\* Sample rates (never, always) and random draws, in thousandths:
\* random.random() is in [0, 1).
SampleRates == {0, 1000}
Draws == {0, 500, 999}
\* Sample rates a caller can pass to a constructor, in thousandths: also
\* below 0 and above 1.
GivenSampleRates == {-500, 0, 1000, 1500}
\* What the underlying callable does with a call's arguments.
Outcomes == { [kind |-> "return", val |-> "resultA"],
              [kind |-> "raise",  val |-> "RateLimitError"] }
\* The caller's extra_headers argument: not given, None, or a dict.
HeaderArgs == {"absent", "none", "dict"}
\* The keys of the three proxy headers, and the keys a caller's own
\* extra_headers may hold: one of its own, and one of the proxy's.
InjectedKeys == {"X-langmesh-API-Key", "X-langmesh-Request-ID", "X-langmesh-Org-ID"}
CallerKeys == {"X-Custom", "X-langmesh-Org-ID"}
EmptyDict == [k \in {} |-> "caller-value"]
\* The extra_headers keyword: not passed, None, or a dict of the caller's.
HeaderValues ==
  {[kind |-> "absent", map |-> EmptyDict], [kind |-> "none", map |-> EmptyDict]}
  \cup { [kind |-> "dict", map |-> [k \in d |-> "caller-value"]] : d \in SUBSET CallerKeys }
\* The arguments of a call: *args and **kwargs.
ArgValues == {<<>>, <<"positional">>}
KwargValues == [model : {"gpt-4o"}, extra_headers : HeaderValues]
\* The ids generate_request_id() returns.
RequestIds == {"req_1", "req_2"}
\* What hasattr(attr, "__call__") and hasattr(attr, "__dict__") say of an
\* attribute: a callable, a namespace-like object (not callable, with a
\* __dict__) or a plain value (neither).
AttrValues == [call : BOOLEAN, dict : BOOLEAN]
\* A client object: who it is, and the attribute found at each depth of the
\* chain client.n1.n2...
Clients == [id : {"client_1"}, attrs : [1..MaxDepth -> AttrValues]]
DefaultClient ==
  [id |-> "client_1",
   attrs |-> [d \in 1..MaxDepth |-> [call |-> d = MaxDepth, dict |-> TRUE]]]
\* The messages keyword of a call: not passed, or a list, given by the text
\* of its content; a list holding an object json.dumps cannot encode.
MessageValues == {"absent", "empty", "Hello", "secret", "unserializable"}
\* The model keyword: not passed, a model of MODEL_PRICING, or another.
ModelValues == {"absent", "gpt-4o", "gpt-4o-mini", "text-embedding-3-small", "my-model"}
ParamValues == [model : ModelValues, messages : MessageValues]
\* An attribute of result.usage: absent, None or a number.
Missing == {[kind |-> "absent", val |-> 0], [kind |-> "none", val |-> 0]}
Tokens(ns) == Missing \cup { [kind |-> "int", val |-> n] : n \in ns }
\* What wrapped() gives to _send_telemetry_async as result and error: the
\* result of the call (without a usage attribute, with usage None, or with a
\* usage object), or None and the exception.
UsageValues ==
  [prompt_tokens : Tokens({0, 1000}), completion_tokens : Tokens({500}),
   total_tokens : Tokens({0, 1500, 99})]
NoUsage == [prompt_tokens |-> [kind |-> "absent", val |-> 0],
            completion_tokens |-> [kind |-> "absent", val |-> 0],
            total_tokens |-> [kind |-> "absent", val |-> 0]]
ResultValues ==
  {[result |-> "None", usage |-> NoUsage, error |-> "RateLimitError"],
   [result |-> "no usage", usage |-> NoUsage, error |-> "None"],
   [result |-> "usage None", usage |-> NoUsage, error |-> "None"]}
  \cup { [result |-> "usage", usage |-> u, error |-> "None"] : u \in UsageValues }
\* MODEL_PRICING, in hundredths of a dollar per million tokens.
ModelPricing ==
  [m \in {"gpt-4o", "gpt-4o-mini", "text-embedding-3-small"} |->
     IF m = "gpt-4o" THEN [input |-> 250, output |-> 1000]
     ELSE IF m = "gpt-4o-mini" THEN [input |-> 15, output |-> 60]
     ELSE [input |-> 2, output |-> 0]]
\* The fallback rate 0.00001 dollars per token, in the unit of the costs of
\* this model: 1e-8 dollars.
FallbackRate == 1000
\* What the original chat.completions.create does: return a completion,
\* return one whose usage lacks the token attributes, or raise.
CreateOutcomes == {"completion", "malformed usage", "raise"}
\* `if len(self.telemetry_buffer) >= 10` of the drop-in client
FlushThreshold == 10
\* Outcomes of one network delivery.
NetOutcomes == {"ok", "non2xx", "conn_error", "timeout", "serialization_error"}
Pending == [kind |-> "pending", val |-> "pending"]

\* Threads.
NoThread == <<"none", 0>>
CallerThread == <<"caller", 0>>
TimerThread == <<"timer", 0>>

VARIABLES
  cfg,       \* the configuration the wrapper was constructed with
  caller,    \* the caller thread: [pc, exc]
  call,      \* the latest instrumented call: [n, underlying, invoked, result]
  tasks,     \* _send_telemetry_async's units of work, each running submit()
  buffer,    \* TelemetryClient._buffer (event ids, in order)
  lock,      \* TelemetryClient._buffer_lock: the thread holding it
  paused,    \* TelemetryClient._paused
  flushes,   \* the executions of flush()
  timer,     \* TelemetryClient._flush_timer, its callback, the Timers pending: [obj, pc, live]
  destroyed, \* destroy() has been called
  req,       \* what the latest wrapped() call was given and what it passed on
  wrapper,   \* the langmeshWrapper: its _client, the attribute chain being resolved
  event,     \* the payload the latest _build_and_send_telemetry gave to submit()
  dropin     \* the drop-in OpenAI client: its telemetry_buffer, its threads

vars == <<cfg, caller, call, tasks, buffer, lock, paused, flushes, timer, destroyed, req, wrapper, event, dropin>>

\* ------------------------------------------------------------ helpers
Range(s) == { s[i] : i \in DOMAIN s }
Count(s, x) == Cardinality({ i \in DOMAIN s : s[i] = x })

\* The flushes started by the timer, flush_telemetry() or destroy().
OtherFlushes == Cardinality({ j \in DOMAIN flushes : flushes[j].origin # "threshold" })

\* A thread with a call still running on it (a synchronous call it made) waits.
Busy(th) ==
  \/ \E i \in DOMAIN tasks : tasks[i].on = th /\ tasks[i].pc # "done"
  \/ \E j \in DOMAIN flushes : flushes[j].on = th /\ flushes[j].pc # "done"

\* submit(): `if random.random() > self.config.sample_rate: return`
Admit(rate, draw) == ~(draw > rate)

\* A threshold test that is off by one.
ThresholdAbove(len, batchSize) == len > batchSize

\* submit(): `if len(self._buffer) >= self.config.batch_size`
Threshold(len, batchSize) == len >= batchSize

\* A hand-off that runs send() on the calling thread.
TelemetryInline(i) == CallerThread

\* _send_telemetry_async: threading.Thread(target=send, daemon=True).start()
TelemetryThread(i) == <<"tel", i>>

\* _flush_async: threading.Thread(target=self.flush, daemon=True).start()
FlushThread(j, parent) == <<"fl", j>>

\* A flush() that takes its copy and forgets to clear the buffer.
BufferKept(buf) == buf

\* flush(): `self._buffer.clear()` after `batch = self._buffer[:]`
BufferAfterSwap(buf) == <<>>

\* _send_batch: what raises out of it.  httpx raises on a connection error or
\* a timeout and returns on any status; urllib's URLError (connection error,
\* HTTP error status) is caught inside, a read timeout is not; json.dumps
\* raises before any I/O.
SendBatchRaises(net, hasHttpx) ==
  CASE net = "ok" -> FALSE
    [] net = "non2xx" -> FALSE
    [] net = "conn_error" -> hasHttpx
    [] net = "timeout" -> TRUE
    [] net = "serialization_error" -> TRUE

\* A flush() that keeps the lock while it sends.
LockKept(th) == th

\* flush(): the `with self._buffer_lock:` block ends before _send_batch
LockAfterSwap(th) == NoThread

\* How one delivery attempt ended: delivered, failed inside _send_batch without
\* raising (an error status, a URLError caught there), or raised out of it.
Delivery(net, raised) ==
  IF raised THEN "raised" ELSE IF net = "ok" THEN "ok" ELSE "failed"

\* A flush() that lets the exception of _send_batch through.
FlushPropagates(raised) == IF raised THEN "raised" ELSE "returned"

\* flush(): `try: self._send_batch(batch)  except Exception: pass`
FlushResult(raised) == "returned"

\* A flush() that puts a batch whose delivery raised back for a retry.
BufferRequeued(buf, batch, raised) == IF raised THEN batch \o buf ELSE buf

\* flush(): the except branch leaves the buffer alone (the batch is dropped)
BufferAfterSend(buf, batch, raised) == buf

NewFlush(origin, th) ==
  [origin |-> origin, on |-> th, pc |-> "lock", batch |-> <<>>,
   attempts |-> 0, delivery |-> "none", result |-> "running"]

NewTask(n, error, th) ==
  [call |-> n, error |-> error, on |-> th, pc |-> "check",
   outcome |-> "pending", spawn |-> "none"]

\* No wrapped() call has been made.
NoRequest ==
  [called |-> FALSE, args |-> <<>>, kwargs |-> [model |-> "gpt-4o", extra_headers |-> [kind |-> "absent", map |-> EmptyDict]],
   request_id |-> "none", raised |-> "None", invoked |-> FALSE,
   passed_args |-> <<>>, passed_kwargs |-> [model |-> "gpt-4o", extra_headers |-> [kind |-> "absent", map |-> EmptyDict]],
   caller_headers |-> [kind |-> "absent", map |-> EmptyDict]]

\* langmeshWrapper.__init__: self._client = client.  `at` is the object the
\* expression being evaluated has reached: the wrapper itself at depth 0.
NewWrapper(client) ==
  [_client |-> client,
   at |-> [kind |-> "langmeshWrapper", depth |-> 0, parent |-> "none"],
   called |-> FALSE, invoked |-> 0, instrumented |-> 0,
   unwrapped |-> <<>>]

\* Nothing has been built yet.
NoEvent ==
  [built |-> FALSE, params |-> [model |-> "absent", messages |-> "absent"],
   given |-> [result |-> "None", usage |-> NoUsage, error |-> "None"],
   model |-> "unknown", prompt_tokens |-> 0, completion_tokens |-> 0, total_tokens |-> 0,
   cost_estimate_usd |-> 0, error_class |-> "None", error_message |-> "None",
   prompt_hash |-> "None"]

\* An execution of the drop-in client's _flush_telemetry, not running.
NoFlush == [pc |-> "idle", batch |-> <<>>]

\* OpenAI.__init__ of the drop-in client, with SKEW_API_KEY set:
\* telemetry_buffer = [], the timer started, chat.completions.create wrapped.
NewOpenAI ==
  [telemetry_buffer |-> <<>>, creates |-> 0, pc |-> "idle",
   underlying |-> "none", status |-> "none", raising |-> "None", outcome |-> "none",
   cflush |-> NoFlush, tflush |-> NoFlush, ticks |-> 0, sent |-> {}]

\* --------------------------------------------------------------- Init
\* langmeshWrapper.__init__ and TelemetryClient.__init__
ConstructAround(configs, clients) ==
  /\ cfg \in configs
  /\ wrapper \in { NewWrapper(c) : c \in clients }
  /\ caller = [pc |-> "idle", exc |-> "None"]
  /\ call = [n |-> 0, underlying |-> Pending, invoked |-> FALSE, result |-> Pending]
  /\ tasks = <<>>
  /\ buffer = <<>>
  /\ lock = NoThread
  /\ paused = FALSE
  /\ flushes = <<>>
  /\ timer = [obj |-> IF cfg.enabled THEN "pending" ELSE "none", pc |-> "idle",
               live |-> IF cfg.enabled THEN 1 ELSE 0]
  /\ destroyed = FALSE
  /\ req = NoRequest
  /\ event = NoEvent
  /\ dropin = NewOpenAI

Construct(configs) == ConstructAround(configs, {DefaultClient})

\* ------------------------------------------------- the wrapper's calls
\* wrapped(): the proxy-header block.  kwargs.get("extra_headers", {}) gives
\* the caller's own value; None has no update().
InjectHeaders(proxy, hdr) ==
  IF ~proxy THEN "untouched"
  ELSE IF hdr = "none" THEN "AttributeError" ELSE "merged"

\* --------------------------------------------- attribute resolution
\* A nested namespace handed out as it is (not what the code does)
NamespaceGetattrBare(attr, parent) == [kind |-> "value", parent |-> "none"]

\* _NamespaceWrapper.__getattr__: self._parent._wrap_method(attr, name) for a
\* callable, _NamespaceWrapper(attr, self._parent) for an object with a
\* __dict__, else the attribute itself.
NamespaceGetattr(attr, parent) ==
  IF attr.call THEN [kind |-> "wrapped", parent |-> parent]
  ELSE IF attr.dict THEN [kind |-> "_NamespaceWrapper", parent |-> parent]
  ELSE [kind |-> "value", parent |-> "none"]

\* langmeshWrapper.__getattr__: the same three cases, with self as parent.
WrapperGetattr(attr) ==
  IF attr.call THEN [kind |-> "wrapped", parent |-> "self"]
  ELSE IF attr.dict THEN [kind |-> "_NamespaceWrapper", parent |-> "self"]
  ELSE [kind |-> "value", parent |-> "none"]

\* The next name of the chain is resolved on what the expression has
\* reached: the wrapper, a namespace wrapper, or an object of the client
\* itself (plain getattr).
GetAttr ==
  /\ caller.pc = "idle"
  /\ ~wrapper.called
  /\ wrapper.at.depth < MaxDepth
  /\ wrapper.at.kind # "wrapped"
  /\ wrapper.at.kind = "value" =>
        LET here == wrapper._client.attrs[wrapper.at.depth] IN ~here.call /\ here.dict
  /\ LET d == wrapper.at.depth + 1
         attr == wrapper._client.attrs[d]
         got == IF wrapper.at.kind = "langmeshWrapper" THEN WrapperGetattr(attr)
                ELSE IF wrapper.at.kind = "_NamespaceWrapper"
                THEN NamespaceGetattr(attr, wrapper.at.parent)
                ELSE [kind |-> "value", parent |-> "none"]
     IN wrapper' = [wrapper EXCEPT !.at = [kind |-> got.kind, depth |-> d, parent |-> got.parent]]
  /\ UNCHANGED <<cfg, dropin, req, event, caller, call, tasks, buffer, lock, paused, flushes, timer, destroyed>>

\* The callable the chain ended on is called: wrapped() calls the method once
\* and hands one event to _send_telemetry_async; a callable of the client
\* itself just runs.
CallAttr ==
  /\ caller.pc = "idle"
  /\ ~wrapper.called
  /\ \/ wrapper.at.kind = "wrapped"
     \/ wrapper.at.kind = "value" /\ wrapper._client.attrs[wrapper.at.depth].call
  /\ wrapper' = [wrapper EXCEPT !.called = TRUE,
                                !.invoked = @ + 1,
                                !.instrumented = IF wrapper.at.kind = "wrapped" THEN @ + 1 ELSE @]
  /\ UNCHANGED <<cfg, dropin, req, event, caller, call, tasks, buffer, lock, paused, flushes, timer, destroyed>>

\* The caller starts another expression on the wrapper.
NewChain ==
  /\ caller.pc = "idle"
  /\ wrapper.at.depth > 0
  /\ wrapper' = [wrapper EXCEPT !.at = [kind |-> "langmeshWrapper", depth |-> 0, parent |-> "none"],
                                !.called = FALSE, !.invoked = 0, !.instrumented = 0]
  /\ UNCHANGED <<cfg, dropin, req, event, caller, call, tasks, buffer, lock, paused, flushes, timer, destroyed>>

\* unwrap() handing out a copy of the client (not what the code does)
UnwrapCopy(w) == [w._client EXCEPT !.id = "copy of " \o @]

\* unwrap(): `return self._client`
UnwrapResult(w) == w._client

\* unwrap() called; `unwrapped` holds the object it returned, once called.
Unwrap ==
  /\ caller.pc = "idle"
  /\ wrapper' = [wrapper EXCEPT !.unwrapped = <<UnwrapResult(wrapper)>>]
  /\ UNCHANGED <<cfg, dropin, req, event, caller, call, tasks, buffer, lock, paused, flushes, timer, destroyed>>

\* ------------------------------------------------ the telemetry event
\* A cost that takes the flat rate for every model (not what the code does)
CalculateCostFlat(model, prompt_tokens, completion_tokens) ==
  (prompt_tokens + completion_tokens) * FallbackRate

\* calculate_cost, in 1e-8 dollars: (tokens / 1_000_000) * price per million
CalculateCost(model, prompt_tokens, completion_tokens) ==
  IF model \notin DOMAIN ModelPricing
  THEN (prompt_tokens + completion_tokens) * FallbackRate
  ELSE prompt_tokens * ModelPricing[model].input
       + completion_tokens * ModelPricing[model].output

\* getattr(result.usage, name, 0) or 0
OrZero(x) == IF x.kind = "int" THEN x.val ELSE 0

\* A total taken from the response alone (not what the code does)
TotalSupplied(x, prompt_tokens, completion_tokens) == OrZero(x)

\* getattr(result.usage, "total_tokens", 0) or prompt_tokens + completion_tokens
TotalTokens(x, prompt_tokens, completion_tokens) ==
  IF x.kind = "int" /\ x.val # 0 THEN x.val ELSE prompt_tokens + completion_tokens

\* json.dumps(params["messages"])
JsonDumps(messages) ==
  IF messages = "empty" THEN "[]"
  ELSE "[{\"role\": \"user\", \"content\": \"" \o messages \o "\"}]"

\* A hash that hands back its input (not what the code does)
HashIdentity(prompt) == prompt

\* hash_prompt: the first 16 hex digits of the SHA-256 of the text
HashPrompt(prompt) ==
  IF prompt = "[]" THEN "4f53cda18c2baa0c"
  ELSE IF prompt = "[{\"role\": \"user\", \"content\": \"Hello\"}]" THEN "f21a26f20173f942"
  ELSE "b769d5493496e098"

\* _build_and_send_telemetry: the payload given to submit().  json.dumps
\* raising TypeError leaves the function before a payload exists (send()
\* drops the exception).
BuildTelemetry(params, given) ==
  /\ LET model == IF params.model = "absent" THEN "unknown" ELSE params.model
         counted == given.result = "usage"
         prompt_tokens == IF counted THEN OrZero(given.usage.prompt_tokens) ELSE 0
         completion_tokens == IF counted THEN OrZero(given.usage.completion_tokens) ELSE 0
         total_tokens == IF counted
                         THEN TotalTokens(given.usage.total_tokens, prompt_tokens, completion_tokens)
                         ELSE 0
         hashed == ~cfg.include_prompts /\ params.messages # "absent"
     IN event' =
          IF hashed /\ params.messages = "unserializable"
          THEN [NoEvent EXCEPT !.params = params, !.given = given]
          ELSE [built |-> TRUE, params |-> params, given |-> given,
                model |-> model, prompt_tokens |-> prompt_tokens,
                completion_tokens |-> completion_tokens, total_tokens |-> total_tokens,
                cost_estimate_usd |-> CalculateCost(model, prompt_tokens, completion_tokens),
                error_class |-> given.error,
                error_message |-> IF given.error = "None" THEN "None" ELSE "rate limit reached",
                prompt_hash |-> IF hashed THEN HashPrompt(JsonDumps(params.messages)) ELSE "None"]
  /\ UNCHANGED <<cfg, dropin, req, wrapper, caller, call, tasks, buffer, lock, paused, flushes, timer, destroyed>>

\* ------------------------------------------- the drop-in OpenAI client
Unchanged == <<cfg, req, wrapper, event, caller, call, tasks, buffer, lock, paused,
               flushes, timer, destroyed>>

\* wrapped_create: the event of a call.  The dict is built inside the try
\* block: result.usage.prompt_tokens raising AttributeError lands in
\* `except Exception as error`, which records an error event.
Status(oc) == IF oc = "completion" THEN "success" ELSE "error"

\* wrapped_create: original_create(*args, **kwargs) and the construction of
\* the event.
WrappedCreate(oc) ==
  /\ dropin.pc = "idle"
  /\ dropin.creates < MaxCreates
  /\ dropin' = [dropin EXCEPT !.creates = @ + 1, !.pc = "append",
                              !.underlying = oc, !.status = Status(oc),
                              !.raising = IF oc = "raise" THEN "APIError"
                                          ELSE IF Status(oc) = "error" THEN "AttributeError"
                                          ELSE "None",
                              !.outcome = "none"]
  /\ UNCHANGED Unchanged

\* _record_telemetry: self.telemetry_buffer.append(event)
RecordAppend ==
  /\ dropin.pc = "append"
  /\ dropin' = [dropin EXCEPT !.telemetry_buffer = Append(@, dropin.creates),
                              !.pc = "threshold"]
  /\ UNCHANGED Unchanged

\* _record_telemetry: `if len(self.telemetry_buffer) >= 10:
\* self._flush_telemetry()`, a call on the same thread
RecordThreshold ==
  /\ dropin.pc = "threshold"
  /\ IF Len(dropin.telemetry_buffer) >= FlushThreshold
     THEN dropin' = [dropin EXCEPT !.pc = "flush", !.cflush = [pc |-> "test", batch |-> <<>>]]
     ELSE dropin' = [dropin EXCEPT !.pc = "return"]
  /\ UNCHANGED Unchanged

\* _flush_telemetry: `if not self.telemetry_buffer: return`
FlushTelemetryTest(th) ==
  /\ dropin[th].pc = "test"
  /\ dropin' = [dropin EXCEPT ![th].pc = IF dropin.telemetry_buffer = <<>> THEN "done" ELSE "copy"]
  /\ UNCHANGED Unchanged

\* _flush_telemetry: batch = self.telemetry_buffer[:]
FlushTelemetryCopy(th) ==
  /\ dropin[th].pc = "copy"
  /\ dropin' = [dropin EXCEPT ![th].pc = "reset", ![th].batch = dropin.telemetry_buffer]
  /\ UNCHANGED Unchanged

\* _flush_telemetry: self.telemetry_buffer = []
FlushTelemetryReset(th) ==
  /\ dropin[th].pc = "reset"
  /\ dropin' = [dropin EXCEPT ![th].pc = "post", !.telemetry_buffer = <<>>]
  /\ UNCHANGED Unchanged

\* _flush_telemetry: httpx.post(...) inside try/except Exception
FlushTelemetryPost(th) ==
  /\ dropin[th].pc = "post"
  /\ dropin' = [dropin EXCEPT ![th].pc = "done",
                              !.sent = @ \cup Range(dropin[th].batch)]
  /\ UNCHANGED Unchanged

\* wrapped_create: `return result` or `raise`, once _record_telemetry is over
CreateReturn ==
  /\ \/ dropin.pc = "return"
     \/ dropin.pc = "flush" /\ dropin.cflush.pc = "done"
  /\ dropin' = [dropin EXCEPT !.pc = "idle", !.cflush = NoFlush,
                              !.outcome = IF dropin.raising = "None" THEN "result"
                                          ELSE dropin.raising]
  /\ UNCHANGED Unchanged

\* _start_telemetry: the Timer fires flush_periodically, which calls
\* _flush_telemetry and then starts the next Timer.
FlushPeriodically ==
  /\ dropin.tflush.pc \in {"idle", "done"}
  /\ dropin.ticks < MaxTicks
  /\ dropin' = [dropin EXCEPT !.ticks = @ + 1, !.tflush = [pc |-> "test", batch |-> <<>>]]
  /\ UNCHANGED Unchanged

\* --------------------------------------------------- the proxy headers
\* headers.update(...) that forgets what the dict held (not what dict.update does)
DictReplace(d, other) == other

\* dict.update(other): other's keys are set, the rest of d stays
DictUpdate(d, other) ==
  [k \in DOMAIN d \cup DOMAIN other |-> IF k \in DOMAIN other THEN other[k] ELSE d[k]]

\* `self._config.org_id or ""`
OrEmpty(org_id) == IF org_id \in {"None", ""} THEN "" ELSE org_id

\* wrapped(): the dict literal given to headers.update()
ProxyHeaders(config, request_id) ==
  [k \in InjectedKeys |->
     IF k = "X-langmesh-API-Key" THEN config.api_key
     ELSE IF k = "X-langmesh-Request-ID" THEN request_id
     ELSE OrEmpty(config.org_id)]

\* Header injection whatever proxy_enabled was (not what the code does)
ProxyAlways(config) == TRUE

\* `self._proxy_active = proxy_enabled`
ProxyActive(config) == config.proxy

\* kwargs.get("extra_headers", {}): the caller's own object when the key is
\* there (None included), a new dict when it is not.
GetExtraHeaders(kwargs) ==
  IF kwargs.extra_headers.kind = "absent"
  THEN [kind |-> "dict", map |-> EmptyDict]
  ELSE kwargs.extra_headers

\* wrapped(): the proxy-header block, on the keyword arguments.  None has no
\* update(): AttributeError, raised before the try block.
WithProxyHeaders(config, request_id, kwargs) ==
  IF ~ProxyActive(config) THEN [raised |-> "None", kwargs |-> kwargs]
  ELSE LET headers == GetExtraHeaders(kwargs) IN
       IF headers.kind # "dict" THEN [raised |-> "AttributeError", kwargs |-> kwargs]
       ELSE [raised |-> "None",
             kwargs |-> [kwargs EXCEPT !.extra_headers =
                           [kind |-> "dict",
                            map |-> DictUpdate(headers.map, ProxyHeaders(config, request_id))]]]

\* wrapped(), up to method(*args, **kwargs): what the underlying callable is
\* given.  The dict the caller passed is the object update() was called on.
WrappedCall(args, kwargs, request_id) ==
  /\ LET r == WithProxyHeaders(cfg, request_id, kwargs) IN
     req' = [called |-> TRUE, args |-> args, kwargs |-> kwargs,
             request_id |-> request_id, raised |-> r.raised,
             invoked |-> r.raised = "None",
             passed_args |-> IF r.raised = "None" THEN args ELSE <<>>,
             passed_kwargs |-> r.kwargs,
             caller_headers |-> IF kwargs.extra_headers.kind = "dict"
                                THEN r.kwargs.extra_headers
                                ELSE kwargs.extra_headers]
  /\ UNCHANGED <<cfg, dropin, wrapper, event, caller, call, tasks, buffer, lock, paused, flushes, timer, destroyed>>

\* wrapped(): request id, header injection, then method(*args, **kwargs).
Invoke(hdr, oc) ==
  /\ caller.pc = "idle"
  /\ call.n < MaxCalls
  /\ IF InjectHeaders(cfg.proxy, hdr) = "AttributeError"
     THEN /\ call' = [n |-> call.n + 1, underlying |-> oc, invoked |-> FALSE,
                      result |-> [kind |-> "raise", val |-> "AttributeError"]]
          /\ UNCHANGED caller
     ELSE /\ call' = [n |-> call.n + 1, underlying |-> oc, invoked |-> TRUE,
                      result |-> Pending]
          /\ caller' = IF oc.kind = "return"
                       THEN [pc |-> "sendOk", exc |-> "None"]
                       ELSE [pc |-> "sendErr", exc |-> oc.val]
  /\ UNCHANGED <<cfg, dropin, req, wrapper, event, tasks, buffer, lock, paused, flushes, timer, destroyed>>

\* wrapped(), in the try block: self._send_telemetry_async(..., result, None).
\* Thread.start() either starts the thread or raises RuntimeError, which the
\* `except Exception as e` of wrapped() catches.
SendTelemetryOk(started) ==
  /\ caller.pc = "sendOk"
  /\ IF started
     THEN /\ tasks' = Append(tasks, NewTask(call.n, "None",
                                            TelemetryThread(Len(tasks) + 1)))
          /\ caller' = [pc |-> "return", exc |-> "None"]
     ELSE /\ caller' = [pc |-> "sendErr", exc |-> "RuntimeError"]
          /\ UNCHANGED tasks
  /\ UNCHANGED <<cfg, dropin, req, wrapper, event, call, buffer, lock, paused, flushes, timer, destroyed>>

\* wrapped(), in the except block: self._send_telemetry_async(..., None, e),
\* then `raise`.  A RuntimeError of Thread.start() leaves the block instead.
SendTelemetryErr(started) ==
  /\ caller.pc = "sendErr"
  /\ IF started
     THEN /\ tasks' = Append(tasks, NewTask(call.n, caller.exc,
                                            TelemetryThread(Len(tasks) + 1)))
          /\ caller' = [pc |-> "reraise", exc |-> caller.exc]
     ELSE /\ caller' = [pc |-> "reraise", exc |-> "RuntimeError"]
          /\ UNCHANGED tasks
  /\ UNCHANGED <<cfg, dropin, req, wrapper, event, call, buffer, lock, paused, flushes, timer, destroyed>>

\* wrapped(): `return result` or `raise`; also the return of flush_telemetry()
\* and destroy().  The caller's thread leaves once nothing runs on it.
Return ==
  /\ caller.pc \in {"return", "reraise", "admin", "destroy"}
  /\ ~Busy(CallerThread)
  /\ call' = IF caller.pc = "return"
             THEN [call EXCEPT !.result = call.underlying]
             ELSE IF caller.pc = "reraise"
             THEN [call EXCEPT !.result = [kind |-> "raise", val |-> caller.exc]]
             ELSE call
  /\ caller' = [pc |-> "idle", exc |-> "None"]
  /\ UNCHANGED <<cfg, dropin, req, wrapper, event, tasks, buffer, lock, paused, flushes, timer, destroyed>>

\* A pause() that also empties the buffer (not what the code does)
PauseDiscarding ==
  /\ caller.pc = "idle"
  /\ paused' = TRUE
  /\ buffer' = <<>>
  /\ UNCHANGED <<cfg, dropin, req, wrapper, event, caller, call, tasks, lock, flushes, timer, destroyed>>

\* pause_telemetry() -> TelemetryClient.pause()
Pause ==
  /\ caller.pc = "idle"
  /\ paused' = TRUE
  /\ UNCHANGED <<cfg, dropin, req, wrapper, event, caller, call, tasks, buffer, lock, flushes, timer, destroyed>>

\* A resume() that starts a periodic timer of its own (not what the code does)
ResumeRestarting ==
  /\ caller.pc = "idle"
  /\ paused' = FALSE
  /\ timer' = [timer EXCEPT !.obj = "pending", !.live = @ + 1]
  /\ UNCHANGED <<cfg, dropin, req, wrapper, event, caller, call, tasks, buffer, lock, flushes, destroyed>>

\* resume_telemetry() -> TelemetryClient.resume()
Resume ==
  /\ caller.pc = "idle"
  /\ paused' = FALSE
  /\ UNCHANGED <<cfg, dropin, req, wrapper, event, caller, call, tasks, buffer, lock, flushes, timer, destroyed>>

\* flush_telemetry() -> TelemetryClient.flush(), on the caller's thread
FlushTelemetry ==
  /\ caller.pc = "idle"
  /\ OtherFlushes < MaxFlushes
  /\ flushes' = Append(flushes, NewFlush("explicit", CallerThread))
  /\ caller' = [pc |-> "admin", exc |-> "None"]
  /\ UNCHANGED <<cfg, dropin, req, wrapper, event, call, tasks, buffer, lock, paused, timer, destroyed>>

\* destroy() without its final flush (not what the code does)
DestroySkipsFlush(fl) == fl

\* destroy(): `self.flush()`, a call on the thread that called destroy()
DestroyFlush(fl) == Append(fl, NewFlush("destroy", CallerThread))

\* destroy(): cancel the timer `_flush_timer` refers to (a Timer whose callback
\* already runs is not stopped by cancel()), then flush() on this thread.
Destroy ==
  /\ caller.pc = "idle"
  /\ ~destroyed
  /\ OtherFlushes < MaxFlushes
  /\ destroyed' = TRUE
  /\ timer' = IF timer.obj = "pending"
               THEN [timer EXCEPT !.obj = "cancelled", !.live = @ - 1]
               ELSE timer
  /\ flushes' = DestroyFlush(flushes)
  /\ caller' = [pc |-> "destroy", exc |-> "None"]
  /\ UNCHANGED <<cfg, dropin, req, wrapper, event, call, tasks, buffer, lock, paused>>

\* ------------------------------------------------------------ submit()
\* client.submit(payload) called directly, on a thread of its own
Submit ==
  /\ Len(tasks) < MaxSubmits
  /\ tasks' = Append(tasks, NewTask(0, "None", <<"sub", Len(tasks) + 1>>))
  /\ UNCHANGED <<cfg, dropin, req, wrapper, event, caller, call, buffer, lock, paused, flushes, timer, destroyed>>

\* send(): _build_and_send_telemetry builds the payload (an exception there is
\* dropped by send's `except Exception: pass`), then submit(): the
\* enabled/paused test and the sampling draw, both outside the lock.
SubmitCheck(i, built, draw) ==
  /\ tasks[i].pc = "check"
  /\ tasks' = [tasks EXCEPT ![i] =
       IF ~built THEN [@ EXCEPT !.pc = "done", !.outcome = "dropped"]
       ELSE IF ~cfg.enabled \/ paused
       THEN [@ EXCEPT !.pc = "done", !.outcome = "dropped"]
       ELSE IF ~Admit(cfg.sample_rate, draw)
       THEN [@ EXCEPT !.pc = "done", !.outcome = "dropped"]
       ELSE [@ EXCEPT !.pc = "lock"]]
  /\ UNCHANGED <<cfg, dropin, req, wrapper, event, caller, call, buffer, lock, paused, flushes, timer, destroyed>>

\* An insertion at the head of the list (not what the code does)
BufferPrepend(buf, e) == <<e>> \o buf

\* submit(): self._buffer.append(payload)
BufferAppend(buf, e) == Append(buf, e)

\* submit(): `with self._buffer_lock:` (threading.Lock, not re-entrant), the
\* append and the threshold test.  _flush_async starts a thread running
\* flush(); a RuntimeError of Thread.start() leaves the `with` block
\* (releasing the lock) and submit().
SubmitAppend(i, started) ==
  /\ tasks[i].pc = "lock"
  /\ lock = NoThread
  /\ buffer' = BufferAppend(buffer, i)
  /\ IF Threshold(Len(buffer'), BatchSize)
     THEN IF started
          THEN /\ flushes' = Append(flushes,
                     NewFlush("threshold", FlushThread(Len(flushes) + 1, tasks[i].on)))
               /\ tasks' = [tasks EXCEPT ![i].pc = "release", ![i].spawn = "started"]
               /\ lock' = tasks[i].on
          ELSE /\ tasks' = [tasks EXCEPT ![i].pc = "done", ![i].spawn = "failed",
                                         ![i].outcome = "raised"]
               /\ UNCHANGED <<lock, flushes>>
     ELSE /\ started
          /\ tasks' = [tasks EXCEPT ![i].pc = "release"]
          /\ lock' = tasks[i].on
          /\ UNCHANGED flushes
  /\ UNCHANGED <<cfg, dropin, req, wrapper, event, caller, call, paused, timer, destroyed>>

\* submit(): the end of the `with` block, once _flush_async has returned
SubmitRelease(i) ==
  /\ tasks[i].pc = "release"
  /\ ~\E j \in DOMAIN flushes : flushes[j].on = tasks[i].on /\ flushes[j].pc # "done"
  /\ lock' = NoThread
  /\ tasks' = [tasks EXCEPT ![i].pc = "done", ![i].outcome = "appended"]
  /\ UNCHANGED <<cfg, dropin, req, wrapper, event, caller, call, buffer, paused, flushes, timer, destroyed>>

\* ------------------------------------------------------------- flush()
\* flush(): under the lock, return on an empty buffer, else copy and clear;
\* the lock is released at the end of the `with` block.
FlushSwap(j) ==
  /\ flushes[j].pc = "lock"
  /\ lock = NoThread
  /\ IF buffer = <<>>
     THEN /\ flushes' = [flushes EXCEPT ![j].pc = "done", ![j].result = "returned"]
          /\ UNCHANGED <<buffer, lock>>
     ELSE /\ flushes' = [flushes EXCEPT ![j].pc = "send", ![j].batch = buffer]
          /\ buffer' = BufferAfterSwap(buffer)
          /\ lock' = LockAfterSwap(flushes[j].on)
  /\ UNCHANGED <<cfg, dropin, req, wrapper, event, caller, call, tasks, paused, timer, destroyed>>

\* flush(): _send_batch(batch) inside try/except, outside the lock
FlushSend(j, net, hasHttpx) ==
  /\ flushes[j].pc = "send"
  /\ LET raised == SendBatchRaises(net, hasHttpx) IN
     /\ flushes' = [flushes EXCEPT ![j].pc = "done", ![j].delivery = Delivery(net, raised),
                                   ![j].attempts = @ + 1,
                                   ![j].result = FlushResult(raised)]
     /\ buffer' = BufferAfterSend(buffer, flushes[j].batch, raised)
  /\ UNCHANGED <<cfg, dropin, req, wrapper, event, caller, call, tasks, lock, paused, timer, destroyed>>

\* ----------------------------------------------------- the flush timer
\* The pending threading.Timer fires: flush_and_reschedule calls flush()
TimerFire ==
  /\ timer.obj = "pending"
  /\ OtherFlushes < MaxFlushes
  /\ timer' = [obj |-> "fired", pc |-> "flush", live |-> timer.live - 1]
  /\ flushes' = Append(flushes, NewFlush("timer", TimerThread))
  /\ UNCHANGED <<cfg, dropin, req, wrapper, event, caller, call, tasks, buffer, lock, paused, destroyed>>

\* A callback that never starts the next Timer (not what the code does)
NeverRescheduled(t) == [t EXCEPT !.pc = "idle"]

\* flush_and_reschedule, after flush(): `if self.config.enabled and not
\* self._paused`, a new Timer is made, stored in _flush_timer and started.
Rescheduled(t) ==
  IF cfg.enabled /\ ~paused
  THEN [t EXCEPT !.obj = "pending", !.pc = "idle", !.live = @ + 1]
  ELSE [t EXCEPT !.pc = "idle"]

\* flush_and_reschedule, after flush(): a new Timer if enabled and not paused
TimerReschedule ==
  /\ timer.pc = "flush"
  /\ ~Busy(TimerThread)
  /\ timer' = Rescheduled(timer)
  /\ UNCHANGED <<cfg, dropin, req, wrapper, event, caller, call, tasks, buffer, lock, paused, flushes, destroyed>>

\* ---------------------------------------------------------------- Next
SubmitSteps ==
  \/ \E i \in DOMAIN tasks, built \in BOOLEAN, draw \in Draws : SubmitCheck(i, built, draw)
  \/ \E i \in DOMAIN tasks, started \in BOOLEAN : SubmitAppend(i, started)
  \/ \E i \in DOMAIN tasks : SubmitRelease(i)

FlushSteps ==
  \/ \E j \in DOMAIN flushes : FlushSwap(j)
  \/ \E j \in DOMAIN flushes, net \in NetOutcomes, hasHttpx \in BOOLEAN :
        FlushSend(j, net, hasHttpx)

\* The wrapper: instrumented calls through langmesh_wrap(client, ...), whose
\* telemetry runs through submit() and the threshold flush.
Init == Construct([enabled : BOOLEAN, sample_rate : SampleRates, proxy : BOOLEAN])

Next ==
  \/ \E hdr \in HeaderArgs, oc \in Outcomes : Invoke(hdr, oc)
  \/ \E started \in BOOLEAN : SendTelemetryOk(started)
  \/ \E started \in BOOLEAN : SendTelemetryErr(started)
  \/ Return
  \/ SubmitSteps
  \/ FlushSteps

Spec == Init /\ [][Next]_vars

\* The TelemetryClient on its own: submit() from any number of threads,
\* flush(), pause(), resume(), destroy() and the periodic timer.
ClientInit == Construct([enabled : BOOLEAN, sample_rate : SampleRates, proxy : {FALSE}])

ClientNext ==
  \/ Submit
  \/ Pause
  \/ Resume
  \/ FlushTelemetry
  \/ Destroy
  \/ Return
  \/ SubmitSteps
  \/ FlushSteps
  \/ TimerFire
  \/ TimerReschedule

ClientSpec == ClientInit /\ [][ClientNext]_vars

\* The TelemetryClient when destroy() is called with no submit() running and
\* none is started before destroy() has returned.
ShutdownNext ==
  \/ Submit /\ caller.pc # "destroy"
  \/ Pause
  \/ Resume
  \/ FlushTelemetry
  \/ Destroy /\ \A i \in DOMAIN tasks : tasks[i].pc = "done"
  \/ Return
  \/ SubmitSteps
  \/ FlushSteps
  \/ TimerFire
  \/ TimerReschedule

ShutdownSpec == ClientInit /\ [][ShutdownNext]_vars

\* The TelemetryClient constructed from whatever sample_rate the caller gave:
\* TelemetryConfig is a plain dataclass and langmeshWrapper.__init__ copies
\* config.sample_rate into it.
ConfigInit == Construct([enabled : BOOLEAN, sample_rate : GivenSampleRates, proxy : {FALSE}])

ConfigSpec == ConfigInit /\ [][ClientNext]_vars

\* The wrapper's attribute resolution around any client, with unwrap(),
\* pause_telemetry(), resume_telemetry() and flush_telemetry().
AttrInit == ConstructAround([enabled : {TRUE}, sample_rate : {1000}, proxy : {FALSE}], Clients)

AttrNext ==
  \/ GetAttr
  \/ CallAttr
  \/ NewChain
  \/ Unwrap
  \/ Pause
  \/ Resume
  \/ FlushTelemetry
  \/ \E j \in DOMAIN flushes : FlushSwap(j)
  \/ Return

AttrSpec == AttrInit /\ [][AttrNext]_vars

\* _build_and_send_telemetry on its own: any arguments, any result.
EventInit ==
  Construct([enabled : {TRUE}, sample_rate : {1000}, proxy : {FALSE},
             include_prompts : BOOLEAN])

EventNext ==
  \E params \in ParamValues, given \in ResultValues : BuildTelemetry(params, given)

EventSpec == EventInit /\ [][EventNext]_vars

DropinInit == Construct([enabled : {TRUE}, sample_rate : {1000}, proxy : {FALSE}])

\* The drop-in OpenAI client: one thread calling chat.completions.create,
\* and the flush timer's thread.
DropinNext ==
  \/ \E oc \in CreateOutcomes : WrappedCreate(oc)
  \/ RecordAppend
  \/ RecordThreshold
  \/ FlushTelemetryTest("cflush")
  \/ FlushTelemetryCopy("cflush")
  \/ FlushTelemetryReset("cflush")
  \/ FlushTelemetryPost("cflush")
  \/ CreateReturn
  \/ FlushPeriodically
  \/ FlushTelemetryTest("tflush")
  \/ FlushTelemetryCopy("tflush")
  \/ FlushTelemetryReset("tflush")
  \/ FlushTelemetryPost("tflush")

DropinSpec == DropinInit /\ [][DropinNext]_vars

\* The TelemetryClient that is enabled and never paused or destroyed:
\* submit() on any thread, threshold flushes and the periodic timer.  Fair
\* scheduling: a pending timer fires, its callback goes on, a flush() that can
\* take a step takes one, and a submit() inside its `with` block leaves it.
LiveInit == Construct([enabled : {TRUE}, sample_rate : SampleRates, proxy : {FALSE}])

LiveNext ==
  \/ Submit
  \/ SubmitSteps
  \/ FlushSteps
  \/ TimerFire
  \/ TimerReschedule

LiveSpec ==
  /\ LiveInit
  /\ [][LiveNext]_vars
  /\ WF_vars(TimerFire)
  /\ WF_vars(TimerReschedule)
  /\ WF_vars(FlushSteps)
  /\ WF_vars(\E i \in DOMAIN tasks : SubmitRelease(i))

\* The proxy-header block of wrapped() on its own: any proxy configuration,
\* any arguments.
HeaderInit ==
  Construct([enabled : {TRUE}, sample_rate : {1000}, proxy : BOOLEAN,
             fail_open : BOOLEAN, api_key : {"sk_test_123"},
             org_id : {"None", "org_test"}])

HeaderNext ==
  \E args \in ArgValues, kwargs \in KwargValues, request_id \in RequestIds :
     WrappedCall(args, kwargs, request_id)

HeaderSpec == HeaderInit /\ [][HeaderNext]_vars

\* ------------------------------------------------------------ properties
\* The event of task i has been appended to the buffer.
Admitted(i) ==
  \/ tasks[i].pc = "release"
  \/ tasks[i].pc = "done" /\ tasks[i].outcome \in {"appended", "raised"}

\* The number of places event e is in: positions of the buffer and of the
\* batches flushes have removed.
Places(e) ==
  Cardinality({ k \in DOMAIN buffer : buffer[k] = e })
  + Cardinality({ p \in { <<j, k>> : j \in DOMAIN flushes, k \in 1..Len(buffer) + Len(tasks) } :
                    p[2] \in DOMAIN flushes[p[1]].batch /\ flushes[p[1]].batch[p[2]] = e })

\* C1 (ClientSpec): every admitted event is in exactly one place, the buffer
\* or one removed batch, and no other event is anywhere; a flush that takes
\* its snapshot takes the whole buffer, so an event appended during another
\* flush's send is in the buffer and goes to the next flush.
C1_ExactlyOnePlace ==
  /\ [](\A i \in DOMAIN tasks : Places(i) = IF Admitted(i) THEN 1 ELSE 0)
  /\ [][\A j \in DOMAIN flushes :
          (flushes[j].pc = "lock" /\ flushes'[j].pc = "send")
             => (flushes'[j].batch = buffer /\ buffer' = <<>>)]_vars
  /\ [][\A j \in DOMAIN flushes :
          flushes[j].pc \in {"send", "done"} => flushes'[j].batch = flushes[j].batch]_vars

\* Two deliveries are in flight at once: the second batch holds an event that
\* was appended while the first flush was sending.
C1_Witness ==
  \E j, k \in DOMAIN flushes :
    /\ j # k
    /\ flushes[j].pc = "send"
    /\ flushes[k].pc = "send"
    /\ Range(flushes[j].batch) \cap Range(flushes[k].batch) = {}

\* C2 (Spec): a finished call whose underlying callable returns a value has
\* returned that value.
C2_Transparency ==
  (call.result # Pending /\ call.underlying.kind = "return")
     => call.result = call.underlying

\* C3 (Spec): a finished call whose underlying callable raised E has raised E.
C3_ErrorFidelity ==
  (call.result # Pending /\ call.invoked /\ call.underlying.kind = "raise")
     => call.result = call.underlying

\* C4 (Spec): no error of the telemetry hand-off reaches the caller, and no
\* call whose underlying callable returned is reported with an error event.
C4_FailureIsolation ==
  /\ call.result.val # "RuntimeError"
  /\ \A i \in DOMAIN tasks :
       (tasks[i].call = call.n /\ tasks[i].error # "None")
          => call.underlying.kind = "raise"

\* C5 (ClientSpec): flush() returns normally whatever the delivery did.
C5_FlushNeverRaises ==
  \A j \in DOMAIN flushes :
    /\ flushes[j].result \in {"running", "returned"}
    /\ flushes[j].pc = "done" => flushes[j].result = "returned"

\* A flush started by the timer whose _send_batch raised has returned.
C5_Witness ==
  \E j \in DOMAIN flushes :
    /\ flushes[j].origin = "timer"
    /\ flushes[j].delivery = "raised"
    /\ flushes[j].result = "returned"

\* C6 (ClientSpec): a removed batch gets one delivery attempt; the events of a
\* batch whose attempt failed are in no later batch and not in the buffer.
C6_NoRetry ==
  \A j \in DOMAIN flushes :
    /\ flushes[j].attempts = IF flushes[j].pc = "done" /\ flushes[j].batch # <<>>
                             THEN 1 ELSE 0
    /\ flushes[j].delivery \in {"failed", "raised"} =>
         /\ Range(flushes[j].batch) \cap Range(buffer) = {}
         /\ \A k \in DOMAIN flushes :
              k # j => Range(flushes[j].batch) \cap Range(flushes[k].batch) = {}

\* After a failed delivery another batch was delivered and the buffer holds
\* nothing.
C6_Witness ==
  \E j, k \in DOMAIN flushes :
    /\ flushes[j].delivery = "raised"
    /\ flushes[k].delivery = "ok"
    /\ buffer = <<>>

\* C7 (Spec): during an instrumented call nothing of the telemetry pipeline
\* runs on the caller's thread, so the call returns whatever state its
\* telemetry and the flushes are in.
C7_FireAndForget ==
  /\ \A i \in DOMAIN tasks : tasks[i].on # CallerThread
  /\ \A j \in DOMAIN flushes : flushes[j].on # CallerThread
  /\ caller.pc \in {"return", "reraise"} => ~Busy(CallerThread)

\* The call has returned while its own event is not yet submitted and the
\* delivery of an earlier batch is in flight.
C7_Witness ==
  /\ caller.pc = "idle"
  /\ call.result = call.underlying
  /\ \E i \in DOMAIN tasks : tasks[i].call = call.n /\ tasks[i].pc # "done"
  /\ \E j \in DOMAIN flushes : flushes[j].pc = "send"

\* C8 (ClientSpec): the lock is held only by a submit() between its append and
\* the end of its `with` block, which it can leave at once; no flush holds it
\* while sending; a threshold flush runs on a thread of its own.
C8_LockDiscipline ==
  /\ \A j \in DOMAIN flushes : flushes[j].pc = "send" => lock # flushes[j].on
  /\ lock # NoThread =>
       \E i \in DOMAIN tasks :
         /\ tasks[i].on = lock
         /\ tasks[i].pc = "release"
         /\ ENABLED SubmitRelease(i)
  /\ \A j \in DOMAIN flushes : \A i \in DOMAIN tasks : flushes[j].on # tasks[i].on

\* A submit() is inside its `with` block while a delivery is in flight.
C8_Witness ==
  \E i \in DOMAIN tasks, j \in DOMAIN flushes :
    /\ tasks[i].pc = "release"
    /\ flushes[j].pc = "send"

\* Only threshold flushes so far, and no event dropped.
Quiet == OtherFlushes = 0 /\ \A i \in DOMAIN tasks : tasks[i].outcome # "dropped"
NAppended == Cardinality({ i \in DOMAIN tasks : Admitted(i) })
FlushRequests == { i \in DOMAIN tasks : tasks[i].spawn # "none" }

\* C9 as stated (ClientSpec): once the B-th submit has returned, having
\* started its flush, exactly one delivery of B events has been made and the
\* buffer is empty.
C9_Original ==
  (/\ Quiet
   /\ NAppended = BatchSize
   /\ \A i \in DOMAIN tasks : tasks[i].pc = "done"
   /\ \E i \in DOMAIN tasks : tasks[i].spawn = "started")
     => /\ buffer = <<>>
        /\ \E j \in DOMAIN flushes :
             flushes[j].attempts = 1 /\ Len(flushes[j].batch) = BatchSize

\* C9 amended (ClientSpec): with only threshold flushes, fewer than B appends
\* request no flush; the B-th append requests exactly one background flush;
\* until that flush takes its snapshot the B events stay in the buffer, and
\* from then on its batch holds exactly the B events and the buffer is empty.
C9_Threshold ==
  Quiet =>
    /\ NAppended < BatchSize => (FlushRequests = {} /\ flushes = <<>>)
    /\ NAppended = BatchSize =>
         /\ Cardinality(FlushRequests) = 1
         /\ Len(flushes) <= 1
         /\ \A j \in DOMAIN flushes :
              IF flushes[j].pc = "lock"
              THEN Len(buffer) = BatchSize
              ELSE Len(flushes[j].batch) = BatchSize /\ buffer = <<>>
         /\ flushes = <<>> => Len(buffer) = BatchSize

\* The threshold flush has delivered the B events.
C9_Witness ==
  /\ Quiet
  /\ NAppended = BatchSize
  /\ \E j \in DOMAIN flushes :
       /\ flushes[j].pc = "done"
       /\ flushes[j].delivery = "ok"
       /\ Len(flushes[j].batch) = BatchSize
  /\ buffer = <<>>

\* C10 (ClientSpec): with sample_rate 0 no event is ever appended and no
\* batch is ever removed.
C10_RateZero ==
  cfg.sample_rate = 0 =>
    /\ buffer = <<>>
    /\ \A i \in DOMAIN tasks : ~Admitted(i)
    /\ \A j \in DOMAIN flushes : flushes[j].batch = <<>>

\* C11 (Spec): with sample_rate 1 and telemetry enabled (the wrapper's client
\* is never paused here), a finished call whose underlying callable was
\* invoked and whose event was not dropped while it was built has exactly one
\* event appended to the buffer.
C11_OneEventPerCall ==
  (/\ cfg.enabled
   /\ cfg.sample_rate = 1000
   /\ call.invoked
   /\ call.result # Pending
   /\ \A i \in DOMAIN tasks : tasks[i].pc = "done" /\ tasks[i].outcome # "dropped")
     => Cardinality({ i \in DOMAIN tasks : tasks[i].call = call.n /\ Admitted(i) }) = 1

\* C12 (ClientSpec): while the client is paused no step makes the buffer
\* longer.
C12_PauseGates == [][paused => Len(buffer') <= Len(buffer)]_vars

\* C13 (ClientSpec): whatever pause() and resume() did before, an enabled
\* client that is active (never paused, or resumed) and was not destroyed has
\* its periodic timer pending whenever the timer's callback is not running.
C13_TimerKeepsTicking ==
  (cfg.enabled /\ ~destroyed /\ ~paused /\ timer.pc = "idle") => timer.obj = "pending"

\* C14 (ClientSpec): once destroy() has been called no periodic timer is
\* pending.
C14_DestroyStopsTimer == destroyed => timer.obj # "pending"

\* destroy() is about to return: its calls on the caller's thread are over.
DestroyReturns == caller.pc = "destroy" /\ ~Busy(CallerThread)

\* C15 (ShutdownSpec): when destroy() returns, no submit() having run beside
\* it, destroy() has made exactly one flush, on its own thread, the buffer is
\* empty, and every event appended so far is in the batch of a flush that has
\* removed it for delivery.
C15_DestroyDrains ==
  DestroyReturns =>
    /\ Cardinality({ j \in DOMAIN flushes : flushes[j].origin = "destroy" }) = 1
    /\ \A j \in DOMAIN flushes :
         flushes[j].origin = "destroy" => flushes[j].on = CallerThread /\ flushes[j].pc = "done"
    /\ buffer = <<>>
    /\ \A i \in DOMAIN tasks :
         Admitted(i) => \E j \in DOMAIN flushes :
                          /\ i \in Range(flushes[j].batch)
                          /\ flushes[j].pc \in {"send", "done"}

\* destroy() returns after its own flush has delivered events that were in
\* the buffer when it was called.
C15_Witness ==
  /\ DestroyReturns
  /\ \E j \in DOMAIN flushes :
       /\ flushes[j].origin = "destroy"
       /\ flushes[j].batch # <<>>
       /\ flushes[j].attempts = 1

\* C16 (ConfigSpec): whatever sample_rate was given to the constructor, the
\* client runs with a sample rate from 0 to 1.
C16_RateInRange == cfg.sample_rate >= 0 /\ cfg.sample_rate <= 1000

\* C17 (HeaderSpec): with proxy mode on, the header map the underlying
\* callable receives holds the configured API key, this call's request id and
\* the configured org id ("" when unset), and every key of the caller's own
\* headers that is not one of these three, with the caller's value.
C17_HeaderInjection ==
  (ProxyActive(cfg) /\ req.invoked) =>
    LET given == req.kwargs.extra_headers.map
        got == req.passed_kwargs.extra_headers IN
    /\ got.kind = "dict"
    /\ InjectedKeys \subseteq DOMAIN got.map
    /\ got.map["X-langmesh-API-Key"] = cfg.api_key
    /\ got.map["X-langmesh-Request-ID"] = req.request_id
    /\ got.map["X-langmesh-Org-ID"] = (IF cfg.org_id = "None" THEN "" ELSE cfg.org_id)
    /\ \A k \in DOMAIN given \ InjectedKeys :
         k \in DOMAIN got.map /\ got.map[k] = given[k]
    /\ DOMAIN got.map = InjectedKeys \cup DOMAIN given

\* A call with proxy mode on and no org id, whose caller passed a header of
\* its own and one of the proxy's keys.
C17_Witness ==
  /\ ProxyActive(cfg)
  /\ req.invoked
  /\ cfg.org_id = "None"
  /\ DOMAIN req.kwargs.extra_headers.map = CallerKeys

\* C18 (HeaderSpec): with proxy mode off, the underlying callable is invoked
\* with the caller's positional and keyword arguments as they were given.
C18_ArgumentsUntouched ==
  (~cfg.proxy /\ req.called) =>
    /\ req.invoked
    /\ req.passed_args = req.args
    /\ req.passed_kwargs = req.kwargs

\* A call with proxy mode off, a positional argument and no extra_headers.
C18_Witness ==
  /\ ~cfg.proxy
  /\ req.invoked
  /\ req.args # <<>>
  /\ req.kwargs.extra_headers.kind = "absent"

\* C19 (HeaderSpec): with proxy mode on and fail_open true, every call
\* reaches the underlying callable, whatever the caller passed as headers.
C19_FailOpen == (cfg.proxy /\ cfg.fail_open /\ req.called) => req.invoked

\* Event a stands before event b in the sequence s.
Precedes(s, a, b) == \E p, q \in DOMAIN s : p < q /\ s[p] = a /\ s[q] = b

\* C20 (ClientSpec): an event appended to the buffer stands behind the events
\* already in it; two events of the buffer keep their order in the buffer or
\* in the batch that removes them; and the events of a batch keep their order
\* up to and after its delivery.
C20_FifoBatch ==
  [][\A a, b \in DOMAIN tasks' :
       /\ (a \in Range(buffer) /\ a \in Range(buffer')
           /\ b \notin Range(buffer) /\ b \in Range(buffer'))
            => Precedes(buffer', a, b)
       /\ Precedes(buffer, a, b)
            => \/ Precedes(buffer', a, b)
               \/ \E j \in DOMAIN flushes' : Precedes(flushes'[j].batch, a, b)
       /\ \A j \in DOMAIN flushes :
            Precedes(flushes[j].batch, a, b) => Precedes(flushes'[j].batch, a, b)]_vars

\* A delivered batch of two events whose order is that of their appends and
\* not that of their submit() calls.
C20_Witness ==
  \E j \in DOMAIN flushes :
    /\ flushes[j].attempts = 1
    /\ Len(flushes[j].batch) = 2
    /\ flushes[j].batch[1] > flushes[j].batch[2]

\* The attribute the chain has reached, and whether every name before it was
\* a namespace-like object.
Reached == wrapper._client.attrs[wrapper.at.depth]
ThroughNamespaces ==
  \A d \in 1..(wrapper.at.depth - 1) :
     ~wrapper._client.attrs[d].call /\ wrapper._client.attrs[d].dict

\* C21 (AttrSpec): a name resolved on the wrapper or on a nested namespace
\* wrapper gives an instrumented wrapper for a callable, a namespace wrapper
\* with the same parent for a namespace-like object and the value itself for
\* a plain value; the call that ends a chain invokes the leaf callable once
\* and is instrumented once.
C21_RecursiveInterception ==
  (wrapper.at.depth >= 1 /\ ThroughNamespaces) =>
    /\ Reached.call => wrapper.at.kind = "wrapped" /\ wrapper.at.parent = "self"
    /\ (~Reached.call /\ Reached.dict) =>
          wrapper.at.kind = "_NamespaceWrapper" /\ wrapper.at.parent = "self"
    /\ (~Reached.call /\ ~Reached.dict) => wrapper.at.kind = "value"
    /\ wrapper.called => wrapper.invoked = 1 /\ wrapper.instrumented = 1
    /\ ~wrapper.called => wrapper.invoked = 0 /\ wrapper.instrumented = 0

\* A chain of MaxDepth names, through nested namespaces, has been called.
C21_Witness ==
  /\ wrapper.at.depth = MaxDepth
  /\ ThroughNamespaces
  /\ wrapper.called
  /\ wrapper.instrumented = 1

\* C23 (AttrSpec): what unwrap() returned is the client object given to the
\* constructor, whatever was called since.
C23_UnwrapIdentity ==
  wrapper.unwrapped # <<>> =>
    /\ wrapper.unwrapped[1] = wrapper._client
    /\ wrapper.unwrapped[1].id = "client_1"

\* unwrap() after an instrumented call, a pause and a flush.
C23_Witness ==
  /\ wrapper.unwrapped # <<>>
  /\ wrapper.called
  /\ paused
  /\ flushes # <<>>

\* The texts of an event, and the raw prompt of the call it was built for.
EventTexts == {event.model, event.error_class, event.error_message, event.prompt_hash}
RawPrompt == {event.params.messages, JsonDumps(event.params.messages)}

C24_TokenUsage ==
  event.built =>
    LET u == event.given.usage IN
    /\ u.prompt_tokens.kind # "int" => event.prompt_tokens = 0
    /\ u.completion_tokens.kind # "int" => event.completion_tokens = 0
    /\ event.given.result # "usage"
         => event.prompt_tokens = 0 /\ event.completion_tokens = 0 /\ event.total_tokens = 0
    /\ u.total_tokens.kind # "int"
         => event.total_tokens = event.prompt_tokens + event.completion_tokens
    /\ (event.given.result = "usage" /\ u.prompt_tokens.kind = "int")
         => event.prompt_tokens = u.prompt_tokens.val

\* An event for a result whose usage gives both counts and no total.
C24_Witness ==
  /\ event.built
  /\ event.given.result = "usage"
  /\ event.given.usage.total_tokens.kind = "absent"
  /\ event.prompt_tokens = 1000
  /\ event.completion_tokens = 500
  /\ event.total_tokens = 1500

\* C25 (EventSpec): the cost of an event is never negative; for a model of
\* the price table it is prompt tokens at the input price plus completion
\* tokens at the output price (gpt-4o, 1000 and 500 tokens: 0.0075 dollars);
\* for any other model it is the flat rate on the sum, positive when the sum is.
C25_CostModel ==
  event.built =>
    LET p == event.prompt_tokens
        c == event.completion_tokens IN
    /\ event.cost_estimate_usd >= 0
    /\ event.model \in DOMAIN ModelPricing
         => event.cost_estimate_usd
              = p * ModelPricing[event.model].input + c * ModelPricing[event.model].output
    /\ (event.model = "gpt-4o" /\ p = 1000 /\ c = 500) => event.cost_estimate_usd = 750000
    /\ event.model \notin DOMAIN ModelPricing
         => /\ event.cost_estimate_usd = FallbackRate * (p + c)
            /\ p + c > 0 => event.cost_estimate_usd > 0

\* The cost of a gpt-4o call with 1000 and 500 tokens.
C25_Witness ==
  /\ event.built
  /\ event.model = "gpt-4o"
  /\ event.prompt_tokens = 1000
  /\ event.completion_tokens = 500

\* The events recorded so far by the drop-in client, all but the one being
\* appended.
Recorded ==
  1..(IF dropin.pc = "append" THEN dropin.creates - 1 ELSE dropin.creates)

\* C26 (DropinSpec): every recorded event is in telemetry_buffer, in the
\* batch of a flush that is running, or in a batch that was sent.
C26_NoEventLost ==
  \A e \in Recorded :
     \/ e \in Range(dropin.telemetry_buffer)
     \/ e \in Range(dropin.cflush.batch)
     \/ e \in Range(dropin.tflush.batch)
     \/ e \in dropin.sent

\* C27 (DropinSpec): the thread inside chat.completions.create never makes
\* the telemetry POST.
C27_NoPostOnCaller == ~(dropin.pc = "flush" /\ dropin.cflush.pc = "post")

\* C28 (DropinSpec): a call whose original create returned normally gives its
\* caller the result, and its event does not have the status "error".
C28_ConstructionRecovered ==
  dropin.underlying \in {"completion", "malformed usage"} =>
    /\ dropin.status # "error"
    /\ dropin.outcome \in {"none", "result"}

\* C29 (HeaderSpec): after a call with proxy mode on, the dict the caller
\* passed as extra_headers holds what it held before the call.
C29_CallerHeadersUntouched ==
  (cfg.proxy /\ req.called /\ req.kwargs.extra_headers.kind = "dict")
    => req.caller_headers = req.kwargs.extra_headers

\* C30 (ClientSpec): pause() leaves the buffer as it is; a flush() that takes
\* the lock while the client is paused removes the whole buffer into its
\* batch, and a flush that sends while the client is paused makes its one
\* delivery attempt.
C30_PauseGatesAdmissionOnly ==
  [][/\ (~paused /\ paused') => buffer' = buffer
     /\ paused =>
          \A j \in DOMAIN flushes :
            /\ (flushes[j].pc = "lock" /\ flushes'[j].pc # "lock")
                 => /\ flushes'[j].batch = buffer
                    /\ buffer # <<>> => buffer' = <<>> /\ flushes'[j].pc = "send"
            /\ (flushes[j].pc = "send" /\ flushes'[j].pc # "send")
                 => /\ flushes'[j].attempts = 1
                    /\ flushes'[j].delivery # "none"
                    /\ flushes'[j].batch = flushes[j].batch]_vars

\* flush_telemetry(), called on a paused client (pause() cannot run before
\* it returns), has removed events from the buffer and delivered them.
C30_Witness ==
  /\ paused
  /\ caller.pc = "admin"
  /\ \E j \in DOMAIN flushes :
       /\ flushes[j].origin = "explicit"
       /\ flushes[j].on = CallerThread
       /\ flushes[j].batch # <<>>
       /\ flushes[j].attempts = 1
  /\ \A j \in DOMAIN flushes : flushes[j].origin = "explicit" => flushes[j].on = CallerThread
  /\ Cardinality({ j \in DOMAIN flushes : flushes[j].origin = "explicit" }) = 1

\* C32 (ClientSpec): at most one periodic timer is pending, and the client
\* constructed with telemetry disabled has no timer at all.
C32_SingleTimer ==
  /\ timer.live <= 1
  /\ (timer.live = 1) = (timer.obj = "pending")
  /\ ~cfg.enabled => timer.obj = "none" /\ timer.live = 0 /\ timer.pc = "idle"

\* One timer is pending after a tick that flushed and rescheduled, on a
\* client that submit() was called on.
C32_Witness ==
  /\ timer.live = 1
  /\ ~destroyed
  /\ ~paused
  /\ \E j \in DOMAIN flushes : flushes[j].origin = "timer" /\ flushes[j].pc = "done"
  /\ tasks # <<>>

\* Event e is in the batch of a flush that has made its delivery attempt.
HandedOff(e) ==
  \E j \in DOMAIN flushes : e \in Range(flushes[j].batch) /\ flushes[j].attempts = 1

\* The model allows no further tick of the timer.
TicksExhausted == OtherFlushes >= MaxFlushes

====
